---- MODULE Spec2Model ----
(***************************************************************************)
(* Model of the Slack bot: the runAgent entry point with its module-level  *)
(* history (stateful variant) and the stateless single-turn variant, the   *)
(* two Slack event handlers that call it, and the tool handlers           *)
(* (calculator, send_email and the LinkedIn tools).                        *)
(*                                                                         *)
(* JavaScript runs each handler without interruption between two awaits,   *)
(* so one action is one such stretch of code.  The value of `await         *)
(* runAgent(..)` reaches the Slack handler in a later microtask of the     *)
(* same turn of the event loop; nothing of the program state changes in    *)
(* between, and the stretch up to the handler's `say` call is one action.  *)
(***************************************************************************)
EXTENDS Integers, Sequences, FiniteSets, TLC

\* ------------------------------------------------------------------ bounds
MaxRequests == 2

Reqs == 1..MaxRequests

\* Inbound texts; "" is the falsy text the message handler drops.
Texts == {"", "hi"}

\* ------------------------------------------------------- completion client
\* The tools registered in the stateful agent module.
tools == {"calculator", "time", "echo"}

\* The two client objects of the module: the bare model and the model with
\* the tools bound.
model == [name |-> "model", tools |-> {}]

llmWithTools == [name |-> "llmWithTools", tools |-> tools]

\* What one completion call can resolve to: a message with text content and
\* no tool calls (a final answer), or a message that requests tool calls and
\* carries no text.
Outcomes ==
    { [kind |-> "final",    content |-> "ok", toolCalls |-> <<>>],
      [kind |-> "toolcall", content |-> "",   toolCalls |-> <<"calculator">>] }

NoRes == [kind |-> "none", content |-> "", toolCalls |-> <<>>]

Failure == [kind |-> "error", content |-> "", toolCalls |-> <<>>]

\* ------------------------------------------------------------------ turns
\* req is not a field of the message object: it records which call created
\* the turn, so that properties can tell the turns of two calls apart.
HumanMessage(t, r) == [role |-> "human", content |-> t, req |-> r]

AIMessage(reply, r) == [role |-> "ai", content |-> reply, req |-> r]

VARIABLES
    agentModule,   \* which module "./agent" resolves to: "stateful" | "stateless"
    history,       \* the module-level array of the stateful agent
    arrived,       \* number of inbound events / calls so far (arrival order = id)
    origin,        \* per request: "none" | "direct" | "app_mention" | "message"
    text,          \* per request: the inbound text
    pc,            \* per request, the runAgent promise: "idle" | "awaiting" | "resolved" | "rejected"
    hpc,           \* per request, the Slack handler: "none" | "ignored" | "awaitAgent" | "awaitSay" | "finished" | "escaped"
    asked,         \* per request: the client objects invoked so far, in order
    res,           \* per request: what the completion call resolved to
    returned,      \* per request: <<v>> when runAgent resolved to v, else <<>>
    said,          \* per request: the texts passed to say, in order
    base,          \* per request: Len(history) on entry to runAgent
    alone          \* per request: no other runAgent call overlapped it so far

agentVars == <<agentModule, history, arrived, origin, text, pc, hpc, asked,
               res, returned, said, base, alone>>

VARIABLES
    env,           \* process.env: which credentials are set
    tpc,           \* the tool invocation: "idle" | "generating" | "posting" | "mailing" | "returned" | "threw"
    tname,         \* name of the tool being invoked
    targs,         \* its arguments
    post,          \* <<p>> once generateLinkedInPost resolved to p
    http,          \* the requests made to the LinkedIn API by this invocation
    tresult        \* the text the handler returned (a sequence of pieces)

toolVars == <<env, tpc, tname, targs, post, http, tresult>>

vars == <<agentVars, toolVars>>

\* ------------------------------------------------------------ initial state
AgentInit ==
    /\ agentModule \in {"stateful", "stateless"}
    /\ history = <<>>
    /\ arrived = 0
    /\ origin = [r \in Reqs |-> "none"]
    /\ text = [r \in Reqs |-> ""]
    /\ pc = [r \in Reqs |-> "idle"]
    /\ hpc = [r \in Reqs |-> "none"]
    /\ asked = [r \in Reqs |-> <<>>]
    /\ res = [r \in Reqs |-> NoRes]
    /\ returned = [r \in Reqs |-> <<>>]
    /\ said = [r \in Reqs |-> <<>>]
    /\ base = [r \in Reqs |-> 0]
    /\ alone = [r \in Reqs |-> TRUE]

\* --------------------------------------------------------------- runAgent
\* The history array after `history.push(new HumanMessage(text))`.
PushHuman(h, t, r) == Append(h, HumanMessage(t, r))

\* PushAI with the reply pushed twice.
PushAI_Twice(h, reply, r) ==
    Append(Append(h, AIMessage(reply, r)), AIMessage(reply, r))

\* PushAI writing over the last element instead of pushing
\* (history[history.length - 1] = ...).
PushAI_Overwrite(h, reply, r) ==
    IF h = <<>> THEN <<AIMessage(reply, r)>>
    ELSE [h EXCEPT ![Len(h)] = AIMessage(reply, r)]

\* PushAI building the turn with the wrong class (new HumanMessage(reply)).
PushAI_AsHuman(h, reply, r) == Append(h, HumanMessage(reply, r))

\* The history array after `history.push(new AIMessage(reply))`.
PushAI(h, reply, r) == Append(h, AIMessage(reply, r))

\* The client object whose invoke the stateful runAgent calls.
AskClient == model

\* `res.content as string`: the cast changes nothing at run time.
ReplyOf(out) == out.content

\* What the stateful runAgent passes to invoke for request r: the module's
\* array itself, not a copy, so it is what history is at any later moment.
HandedHistory(r) == history

\* runAgent up to its await: the stateful variant pushes the human turn and
\* calls model.invoke(history); the stateless one calls model.invoke(text).
RunAgentEnter(r, t) ==
    /\ pc' = [pc EXCEPT ![r] = "awaiting"]
    /\ text' = [text EXCEPT ![r] = t]
    /\ base' = [base EXCEPT ![r] = Len(history)]
    /\ history' = IF agentModule = "stateful" THEN PushHuman(history, t, r)
                  ELSE history
    /\ asked' = [asked EXCEPT ![r] = Append(@, AskClient)]
    /\ alone' = [q \in Reqs |->
                   IF q = r THEN \A p \in Reqs : pc[p] # "awaiting"
                   ELSE IF pc[q] = "awaiting" THEN FALSE
                   ELSE alone[q]]
    /\ UNCHANGED <<agentModule, res, returned, said>>

\* runAgent after its await resolved to `out`: the stateful variant pushes
\* the AI turn; both return the content.
RunAgentResume(r, out) ==
    /\ pc' = [pc EXCEPT ![r] = "resolved"]
    /\ res' = [res EXCEPT ![r] = out]
    /\ history' = IF agentModule = "stateful"
                  THEN PushAI(history, ReplyOf(out), r)
                  ELSE history
    /\ returned' = [returned EXCEPT ![r] = <<ReplyOf(out)>>]
    /\ UNCHANGED <<agentModule, text, asked, base, alone>>

\* runAgent when model.invoke rejected: no try/catch, the promise rejects.
RunAgentThrow(r) ==
    /\ pc' = [pc EXCEPT ![r] = "rejected"]
    /\ res' = [res EXCEPT ![r] = Failure]
    /\ UNCHANGED <<agentModule, history, text, asked, base, alone, returned>>

\* ----------------------------------------------------------- entry points
\* A caller other than Slack calls runAgent(t).
DirectCall(t) ==
    /\ arrived < MaxRequests
    /\ LET r == arrived + 1 IN
        /\ arrived' = r
        /\ origin' = [origin EXCEPT ![r] = "direct"]
        /\ RunAgentEnter(r, t)
        /\ UNCHANGED hpc
    /\ UNCHANGED toolVars

\* app.event("app_mention"): runAgent(event.text) with no test of the text.
AppMention(t) ==
    /\ arrived < MaxRequests
    /\ LET r == arrived + 1 IN
        /\ arrived' = r
        /\ origin' = [origin EXCEPT ![r] = "app_mention"]
        /\ hpc' = [hpc EXCEPT ![r] = "awaitAgent"]
        /\ RunAgentEnter(r, t)
    /\ UNCHANGED toolVars

\* app.event("message") with a truthy text.
Message(t) ==
    /\ arrived < MaxRequests
    /\ t # ""
    /\ LET r == arrived + 1 IN
        /\ arrived' = r
        /\ origin' = [origin EXCEPT ![r] = "message"]
        /\ hpc' = [hpc EXCEPT ![r] = "awaitAgent"]
        /\ RunAgentEnter(r, t)
    /\ UNCHANGED toolVars

\* app.event("message") with a falsy text: `if (!text) return`.
MessageIgnored(t) ==
    /\ arrived < MaxRequests
    /\ t = ""
    /\ LET r == arrived + 1 IN
        /\ arrived' = r
        /\ origin' = [origin EXCEPT ![r] = "message"]
        /\ text' = [text EXCEPT ![r] = t]
        /\ hpc' = [hpc EXCEPT ![r] = "ignored"]
    /\ UNCHANGED <<agentModule, history, pc, asked, res, returned, said,
                   base, alone>>
    /\ UNCHANGED toolVars

\* The completion call of request r resolves; a Slack handler then calls
\* say(reply) and awaits it.
CompletionReturns(r, out) ==
    /\ pc[r] = "awaiting"
    /\ RunAgentResume(r, out)
    /\ IF origin[r] = "direct"
       THEN UNCHANGED <<hpc, said>>
       ELSE /\ hpc' = [hpc EXCEPT ![r] = "awaitSay"]
            /\ said' = [said EXCEPT ![r] = Append(@, ReplyOf(out))]
    /\ UNCHANGED <<arrived, origin>>
    /\ UNCHANGED toolVars

\* The completion call of request r rejects; the rejection passes through
\* `await runAgent(..)` of a Slack handler, which has no try/catch either.
CompletionFails(r) ==
    /\ pc[r] = "awaiting"
    /\ RunAgentThrow(r)
    /\ hpc' = IF origin[r] = "direct" THEN hpc
              ELSE [hpc EXCEPT ![r] = "escaped"]
    /\ UNCHANGED <<arrived, origin, said>>
    /\ UNCHANGED toolVars

\* say resolved: the handler returns.
SayReturns(r) ==
    /\ hpc[r] = "awaitSay"
    /\ hpc' = [hpc EXCEPT ![r] = "finished"]
    /\ UNCHANGED <<agentModule, history, arrived, origin, text, pc, asked,
                   res, returned, said, base, alone>>
    /\ UNCHANGED toolVars

\* say rejected: the rejection leaves the handler.
SayFails(r) ==
    /\ hpc[r] = "awaitSay"
    /\ hpc' = [hpc EXCEPT ![r] = "escaped"]
    /\ UNCHANGED <<agentModule, history, arrived, origin, text, pc, asked,
                   res, returned, said, base, alone>>
    /\ UNCHANGED toolVars

AgentNext ==
    \/ \E t \in Texts : DirectCall(t)
    \/ \E t \in Texts : AppMention(t)
    \/ \E t \in Texts : Message(t)
    \/ \E t \in Texts : MessageIgnored(t)
    \/ \E r \in Reqs, out \in Outcomes : CompletionReturns(r, out)
    \/ \E r \in Reqs : CompletionFails(r)
    \/ \E r \in Reqs : SayReturns(r)
    \/ \E r \in Reqs : SayFails(r)

\* =================================================================== tools
\* A text is the sequence of the pieces a template literal joins; a thrown
\* Error carries its message.
Ok(txt) == [threw |-> FALSE, message |-> txt]

Throw(msg) == [threw |-> TRUE, message |-> msg]

\* The two emoji that open the result texts, in ASCII.
CrossMark == "<cross mark> "

CheckMark == "<check mark> "

Bools == {TRUE, FALSE}

\* process.env: TRUE when the variable is set to a non-empty string.
Envs == [LINKEDIN_ACCESS_TOKEN : Bools, LINKEDIN_PERSON_ID : Bools]

Expressions == {"25*17", "10/0", "2+"}

Topics == {"ai"}

Posts == {"post A", "post B"}

Visibilities == {"PUBLIC", "CONNECTIONS"}

\* autoPost: z.union([z.boolean(), z.string()]).optional()
AutoPosts ==
    { [type |-> "undefined", b |-> FALSE, s |-> ""],
      [type |-> "boolean",   b |-> TRUE,  s |-> ""],
      [type |-> "boolean",   b |-> FALSE, s |-> ""],
      [type |-> "string",    b |-> FALSE, s |-> "true"],
      [type |-> "string",    b |-> FALSE, s |-> "false"],
      [type |-> "string",    b |-> FALSE, s |-> "yes"] }

NoArgs == [expression |-> "", topic |-> "", text |-> "",
           visibility |-> "PUBLIC", cc |-> "", to |-> "",
           autoPost |-> [type |-> "undefined", b |-> FALSE, s |-> ""]]

\* How axios.post can reject: with a response of the API, or without one.
AxiosErrors == {"response", "network"}

ToolInit ==
    /\ env \in Envs
    /\ tpc = "idle"
    /\ tname = "none"
    /\ targs = NoArgs
    /\ post = <<>>
    /\ http = <<>>
    /\ tresult = <<>>

\* ------------------------------------------------------------- calculator
\* eval on the expressions of the documentation: a value, or a SyntaxError.
Eval(expression) ==
    CASE expression = "25*17" -> Ok(<<"425">>)
      [] expression = "10/0"  -> Ok(<<"Infinity">>)
      [] expression = "2+"    -> Throw(<<"Unexpected end of input">>)

calculator(expression) ==
    LET result == Eval(expression) IN
    IF result.threw THEN Ok(<<"Invalid math expression">>)
    ELSE Ok(<<"Result: ">> \o result.message)

\* --------------------------------------------------------------- LinkedIn
\* generateLinkedInPost after postGenerator.invoke settled.
generateLinkedInPost(o) ==
    IF o.threw THEN Throw(<<"Failed to generate post: ">> \o o.message)
    ELSE o

\* postToLinkedIn before any request: the two credential checks.
postToLinkedInChecks(e) ==
    IF ~e.LINKEDIN_ACCESS_TOKEN
    THEN Throw(<<"LINKEDIN_ACCESS_TOKEN", " environment variable is not set">>)
    ELSE IF ~e.LINKEDIN_PERSON_ID
    THEN Throw(<<"LINKEDIN_PERSON_ID", " environment variable is not set">>)
    ELSE Ok(<<>>)

\* The request postToLinkedIn sends with axios.post.
postData(txt, visibility) ==
    [url |-> "https://api.linkedin.com/v2/ugcPosts", text |-> txt,
     visibility |-> visibility]

\* postToLinkedIn after axios.post resolved with the post id.
postToLinkedInResolved(postId) ==
    Ok(<<CheckMark, "LinkedIn post published successfully! Post ID: ", postId,
         "\nView it at: https://www.linkedin.com/feed/update/", postId>>)

\* postToLinkedIn's catch block.
postToLinkedInRejected(kind) ==
    IF kind = "response"
    THEN Throw(<<"LinkedIn API error: ", "403", " - ", "{}">>)
    ELSE Throw(<<"Failed to post to LinkedIn: ", "timeout">>)

\* The try/catch of generateLinkedInPostTool.
generateLinkedInPostTool(o) ==
    IF o.threw THEN Ok(<<CrossMark, "Failed to generate post: ">> \o o.message)
    ELSE Ok(<<"Generated LinkedIn post:\n\n">> \o o.message
            \o <<"\n\n---\nNote: This is a preview. Use the post_to_linkedin tool to publish it.">>)

\* postToLinkedInTool without its try/catch.
postToLinkedInTool_NoCatch(o) == o

\* The try/catch of postToLinkedInTool.
postToLinkedInTool(o) ==
    IF o.threw THEN Ok(<<CrossMark, "Failed to post to LinkedIn: ">> \o o.message)
    ELSE o

\* The test of autoPost written `if (autoPost)`: any non-empty string passes.
AutoPostOn_Truthy(a) ==
    \/ a.type = "boolean" /\ a.b = TRUE
    \/ a.type = "string" /\ a.s # ""

\* The test of autoPost in generateAndPostLinkedInTool.
AutoPostOn(a) ==
    \/ a.type = "boolean" /\ a.b = TRUE
    \/ a.type = "string" /\ a.s = "true"

\* The catch of generateAndPostLinkedInTool.
generateAndPostCatch(o) ==
    IF o.threw THEN Ok(<<CrossMark, "Failed to generate/post: ">> \o o.message)
    ELSE o

\* The text generateAndPostLinkedInTool returns without publishing.
generateAndPostPreview(p) ==
    Ok(<<"Generated LinkedIn post:\n\n", p,
         "\n\n---\nNote: Set autoPost=true to automatically publish this post.">>)

\* The text generateAndPostLinkedInTool returns after publishing.
generateAndPostPublished(o, p) ==
    Ok(o.message \o <<"\n\nGenerated post content:\n", p>>)

\* ------------------------------------------------------------- send_email
\* emailToolkit after transporter.sendMail settled.
emailToolkit(o, a) ==
    IF o.threw THEN Ok(<<CrossMark, "Failed to send email: ">> \o o.message)
    ELSE Ok(<<CheckMark, "Email successfully sent to ", a.to>>
            \o (IF a.cc # "" THEN <<" (CC: ", a.cc, ")">> ELSE <<>>))

\* ------------------------------------------------------------ tool actions
\* The handler settles: its promise resolves with a text, or rejects.
Settle(o) ==
    /\ tpc' = IF o.threw THEN "threw" ELSE "returned"
    /\ tresult' = o.message

\* postToLinkedIn(txt, visibility) up to its await, inside the try block of
\* the calling tool whose catch is `catch(o)`.
StartPosting(txt, visibility, o) ==
    IF postToLinkedInChecks(env).threw
    THEN /\ Settle(o)
         /\ UNCHANGED http
    ELSE /\ http' = Append(http, postData(txt, visibility))
         /\ tpc' = "posting"
         /\ UNCHANGED tresult

InvokeCalculator(expression) ==
    /\ tpc = "idle"
    /\ tname' = "calculator"
    /\ targs' = [NoArgs EXCEPT !.expression = expression]
    /\ Settle(calculator(expression))
    /\ UNCHANGED <<env, post, http>>
    /\ UNCHANGED agentVars

InvokeSendEmail(to, cc) ==
    /\ tpc = "idle"
    /\ tname' = "send_email"
    /\ targs' = [NoArgs EXCEPT !.to = to, !.cc = cc]
    /\ tpc' = "mailing"
    /\ UNCHANGED <<env, post, http, tresult>>
    /\ UNCHANGED agentVars

SendMailSettles(o) ==
    /\ tpc = "mailing"
    /\ Settle(emailToolkit(o, targs))
    /\ UNCHANGED <<env, tname, targs, post, http>>
    /\ UNCHANGED agentVars

InvokeGenerateLinkedInPost(topic) ==
    /\ tpc = "idle"
    /\ tname' = "generate_linkedin_post"
    /\ targs' = [NoArgs EXCEPT !.topic = topic]
    /\ tpc' = "generating"
    /\ UNCHANGED <<env, post, http, tresult>>
    /\ UNCHANGED agentVars

InvokeGenerateAndPost(topic, visibility, autoPost) ==
    /\ tpc = "idle"
    /\ tname' = "generate_and_post_linkedin"
    /\ targs' = [NoArgs EXCEPT !.topic = topic, !.visibility = visibility,
                               !.autoPost = autoPost]
    /\ tpc' = "generating"
    /\ UNCHANGED <<env, post, http, tresult>>
    /\ UNCHANGED agentVars

InvokePostToLinkedIn(txt, visibility) ==
    /\ tpc = "idle"
    /\ tname' = "post_to_linkedin"
    /\ targs' = [NoArgs EXCEPT !.text = txt, !.visibility = visibility]
    /\ StartPosting(txt, visibility,
                    postToLinkedInTool(postToLinkedInChecks(env)))
    /\ UNCHANGED <<env, post>>
    /\ UNCHANGED agentVars

\* postGenerator.invoke resolved with the post p.
GeneratorReturns(p) ==
    /\ tpc = "generating"
    /\ post' = <<p>>
    /\ IF tname = "generate_linkedin_post"
       THEN /\ Settle(generateLinkedInPostTool(generateLinkedInPost(Ok(<<p>>))))
            /\ UNCHANGED http
       ELSE IF AutoPostOn(targs.autoPost)
       THEN StartPosting(p, targs.visibility,
                         generateAndPostCatch(postToLinkedInChecks(env)))
       ELSE /\ Settle(generateAndPostPreview(p))
            /\ UNCHANGED http
    /\ UNCHANGED <<env, tname, targs>>
    /\ UNCHANGED agentVars

\* postGenerator.invoke rejected.
GeneratorFails ==
    /\ tpc = "generating"
    /\ LET o == generateLinkedInPost(Throw(<<"quota exceeded">>)) IN
       IF tname = "generate_linkedin_post"
       THEN Settle(generateLinkedInPostTool(o))
       ELSE Settle(generateAndPostCatch(o))
    /\ UNCHANGED <<env, tname, targs, post, http>>
    /\ UNCHANGED agentVars

\* axios.post resolved.
AxiosReturns(postId) ==
    /\ tpc = "posting"
    /\ IF tname = "post_to_linkedin"
       THEN Settle(postToLinkedInTool(postToLinkedInResolved(postId)))
       ELSE Settle(generateAndPostCatch(
                generateAndPostPublished(postToLinkedInResolved(postId),
                                         post[1])))
    /\ UNCHANGED <<env, tname, targs, post, http>>
    /\ UNCHANGED agentVars

\* axios.post rejected.
AxiosFails(kind) ==
    /\ tpc = "posting"
    /\ IF tname = "post_to_linkedin"
       THEN Settle(postToLinkedInTool(postToLinkedInRejected(kind)))
       ELSE Settle(generateAndPostCatch(postToLinkedInRejected(kind)))
    /\ UNCHANGED <<env, tname, targs, post, http>>
    /\ UNCHANGED agentVars

\* The next invocation starts from a fresh call frame.
ToolDone ==
    /\ tpc \in {"returned", "threw"}
    /\ tpc' = "idle"
    /\ tname' = "none"
    /\ targs' = NoArgs
    /\ post' = <<>>
    /\ http' = <<>>
    /\ tresult' = <<>>
    /\ UNCHANGED env
    /\ UNCHANGED agentVars

ToolNext ==
    \/ \E e \in Expressions : InvokeCalculator(e)
    \/ \E cc \in {"", "c@x.io"} : InvokeSendEmail("a@x.io", cc)
    \/ \E o \in {Ok(<<>>), Throw(<<"Missing credentials for PLAIN">>)} :
          SendMailSettles(o)
    \/ \E t \in Topics : InvokeGenerateLinkedInPost(t)
    \/ \E t \in Topics, v \in Visibilities, a \in AutoPosts :
          InvokeGenerateAndPost(t, v, a)
    \/ \E p \in Posts, v \in Visibilities : InvokePostToLinkedIn(p, v)
    \/ \E p \in Posts : GeneratorReturns(p)
    \/ GeneratorFails
    \/ \E id \in {"urn:li:share:1"} : AxiosReturns(id)
    \/ \E k \in AxiosErrors : AxiosFails(k)
    \/ ToolDone

\* ========================================================== specifications
\* The agent and the Slack handlers.  runAgent invokes no tool, so no tool
\* invocation is in progress and the credentials play no part.
Init ==
    /\ AgentInit
    /\ ToolInit
    /\ env = [LINKEDIN_ACCESS_TOKEN |-> TRUE, LINKEDIN_PERSON_ID |-> TRUE]

Next == AgentNext

Spec == Init /\ [][Next]_vars

\* The tool handlers, invoked one at a time under any configuration of the
\* credentials, with no request in the agent.
ToolSpecInit ==
    /\ AgentInit
    /\ agentModule = "stateful"
    /\ ToolInit

ToolSpec == ToolSpecInit /\ [][ToolNext]_vars

\* ================================================================== claims
IsPrefix(a, b) == Len(a) <= Len(b) /\ SubSeq(b, 1, Len(a)) = a

Range(f) == {f[i] : i \in DOMAIN f}

Stateful == agentModule = "stateful"

\* The block of a resolved request: its human turn, then its AI turn.
BlockOf(r) == <<HumanMessage(text[r], r), AIMessage(returned[r][1], r)>>

RECURSIVE BlocksUpTo(_)
BlocksUpTo(n) ==
    IF n = 0 THEN <<>>
    ELSE BlocksUpTo(n - 1) \o (IF pc[n] = "resolved" THEN BlockOf(n) ELSE <<>>)

\* C1: once every runAgent call made so far has resolved, history is the
\* concatenation, in arrival order, of one block per call: the call's human
\* turn immediately followed by the same call's AI turn.
C1_HistoryIsSerializedBlocks ==
    (Stateful /\ \A r \in Reqs : pc[r] \in {"idle", "resolved"})
        => history = BlocksUpTo(arrived)

\* Request q has a human turn in h that no AI turn of q answers.
Unanswered(h, q) ==
    /\ \E i \in DOMAIN h : h[i].role = "human" /\ h[i].req = q
    /\ ~\E i \in DOMAIN h : h[i].role = "ai" /\ h[i].req = q

\* C2: while a request awaits its completion call, the history it handed to
\* the client ends with its own human turn and holds no human turn of
\* another in-flight request whose AI reply is still missing.
C2_AskViewIsConsistent ==
    Stateful =>
        \A r \in Reqs : pc[r] = "awaiting" =>
            /\ HandedHistory(r) # <<>>
            /\ HandedHistory(r)[Len(HandedHistory(r))] = HumanMessage(text[r], r)
            /\ \A q \in Reqs \ {r} :
                  pc[q] = "awaiting" => ~Unanswered(HandedHistory(r), q)

\* C3: a runAgent(text) call that ran alone and whose completion call returns
\* the final answer t finds history, when the call returns, to be what it was
\* on entry plus the human turn with content text (pushed before the client
\* was called), pushes exactly one AI turn with content t after it, and
\* returns t.
C3_SingleCallRoundTrip ==
    [][ \A r \in Reqs, out \in Outcomes :
          ( /\ Stateful
            /\ pc[r] = "awaiting" /\ alone[r]
            /\ pc'[r] = "resolved" /\ res'[r] = out /\ out.kind = "final" )
          => /\ history = Append(SubSeq(history, 1, base[r]),
                                 HumanMessage(text[r], r))
             /\ history' = history \o <<AIMessage(out.content, r)>>
             /\ Len(history') = base[r] + 2
             /\ returned'[r] = <<out.content>> ]_vars

C3_Witness ==
    \E r \in Reqs :
        /\ Stateful /\ pc[r] = "resolved" /\ alone[r]
        /\ res[r].kind = "final" /\ text[r] = "hi"
        /\ base[r] = 2

\* C4: history is append-only: in every step the previous history is a
\* prefix of the new one.
C4_AppendOnly == [][IsPrefix(history, history')]_vars

C4_Witness ==
    /\ Stateful
    /\ \E r, q \in Reqs : pc[r] = "rejected" /\ pc[q] = "resolved"
                          /\ ~alone[r]
    /\ Len(history) = 3

\* C5: a request whose completion calls all return a tool-call request ends
\* after exactly five completion calls with a MaxIterationsExceededError
\* diagnostic as its result.
C5_IterationBound ==
    Stateful =>
        \A r \in Reqs :
            (pc[r] = "resolved" /\ res[r].kind = "toolcall")
                => /\ Len(asked[r]) = 5
                   /\ returned[r] = <<"MaxIterationsExceededError">>

\* C6: every completion call is made on a client that carries the registered
\* tool definitions, and the text a call returns is a final answer, never
\* the content of a turn that requests tool calls.
C6_ToolLoop ==
    Stateful =>
        \A r \in Reqs :
            /\ \A i \in DOMAIN asked[r] : asked[r][i].tools = tools
            /\ pc[r] = "resolved" => res[r].kind = "final"

\* C7: when the completion call fails, runAgent does not reject: it resolves
\* to an error string.
C7_FailureIsCaught ==
    \A r \in Reqs :
        res[r].kind = "error" => (pc[r] = "resolved" /\ Len(returned[r]) = 1)

\* C8: for each app_mention event and each message event with a non-empty
\* text, once runAgent has settled the handler has called say exactly once,
\* and a failure of runAgent does not escape the handler.
C8_HandlerAlwaysReplies ==
    \A r \in Reqs :
        (origin[r] \in {"app_mention", "message"} /\ hpc[r] # "ignored")
            => /\ Len(asked[r]) = 1
               /\ pc[r] \in {"resolved", "rejected"} => Len(said[r]) = 1
               /\ pc[r] = "rejected" => hpc[r] # "escaped"

\* The credentials postToLinkedIn needs that are not set.
MissingCredentials ==
    {v \in {"LINKEDIN_ACCESS_TOKEN", "LINKEDIN_PERSON_ID"} : ~env[v]}

\* C9: no tool handler rejects: each one settles with a text; and with a
\* LinkedIn credential missing, post_to_linkedin makes no request to
\* LinkedIn and returns an error text that names a missing variable.
C9_ToolsReturnText ==
    /\ tpc # "threw"
    /\ tpc = "returned" => tresult # <<>>
    /\ (tname = "post_to_linkedin" /\ MissingCredentials # {})
          => /\ http = <<>>
             /\ tpc = "returned"
             /\ tresult[1] = CrossMark
             /\ \E v \in MissingCredentials : v \in Range(tresult)

C9_Witness ==
    /\ tname = "post_to_linkedin"
    /\ tpc = "returned"
    /\ MissingCredentials = {"LINKEDIN_PERSON_ID"}

\* autoPost is the boolean true or the string "true".
AutoPostRequested ==
    targs.autoPost \in { [type |-> "boolean", b |-> TRUE,  s |-> ""],
                         [type |-> "string",  b |-> FALSE, s |-> "true"] }

\* C10: generate_and_post_linkedin makes a request to LinkedIn only when
\* autoPost is true or "true" and the post has been generated, the text of
\* the request is the generated post, and otherwise it returns the
\* generated post for review, or an error text when generation failed.
C10_PublishOnlyOnAutoPost ==
    tname = "generate_and_post_linkedin" =>
        /\ http # <<>> =>
              /\ AutoPostRequested
              /\ post # <<>>
              /\ Len(http) = 1
              /\ http[1].text = post[1]
        /\ (tpc = "returned" /\ post # <<>> /\ ~AutoPostRequested) =>
              /\ http = <<>>
              /\ tresult[1] = "Generated LinkedIn post:\n\n"
              /\ tresult[2] = post[1]
        /\ (tpc = "returned" /\ post = <<>>) =>
              /\ http = <<>>
              /\ tresult[1] = CrossMark

C10_Witness ==
    /\ tname = "generate_and_post_linkedin"
    /\ tpc = "returned"
    /\ targs.autoPost.type = "string"
    /\ http # <<>>
    /\ http[1].text = "post B"

\* The number of turns of history with the given role.
TurnCount(role) == Cardinality({i \in DOMAIN history : history[i].role = role})

\* The requests whose runAgent call is in the given state.
RequestsAt(states) == {r \in Reqs : pc[r] \in states}

\* C11: in the stateful agent, the AI turns of history are never more than
\* the human turns, the difference is the number of requests awaiting their
\* completion plus the number whose completion call failed, and a request
\* has a human turn without an AI turn exactly when it is one of those.
C11_UnansweredTurns ==
    Stateful =>
        /\ TurnCount("ai") <= TurnCount("human")
        /\ TurnCount("human") - TurnCount("ai")
              = Cardinality(RequestsAt({"awaiting"}))
                + Cardinality(RequestsAt({"rejected"}))
        /\ \A r \in Reqs :
              Unanswered(history, r) <=> pc[r] \in {"awaiting", "rejected"}

C11_Witness ==
    /\ Stateful
    /\ \E r, q \in Reqs : pc[r] = "rejected" /\ pc[q] = "awaiting" /\ r < q
    /\ TurnCount("human") = 2
    /\ TurnCount("ai") = 0

====
